---- MODULE Spec2Model ----
(***************************************************************************)
(* A model of ak-zod-form-kit: extraction of form data, per-field          *)
(* transformations, dynamic construction of a zod schema, validation and   *)
(* formatting of the result.                                               *)
(*                                                                         *)
(* The library is a set of synchronous functions.  Every public function   *)
(* is modelled as an operator that computes what the code computes, and    *)
(* every specification below draws the arguments of a call in Init and     *)
(* runs the call step by step.                                             *)
(***************************************************************************)
EXTENDS Integers, Sequences, FiniteSets, TLC

VARIABLES
  pc,                 \* position inside the call in progress
  args,               \* the arguments of the call in progress
  extractedFormData,  \* processAndValidateFormData: result of step 1
  dataToProcess,      \* processAndValidateFormData: merged / transformed data
  dynamicSchema,      \* the schema built by createDynamicZodSchema
  validationResult,   \* the result of safeParse
  result              \* the value returned by the call

vars == <<pc, args, extractedFormData, dataToProcess, dynamicSchema,
          validationResult, result>>

(***************************************************************************)
(* JavaScript values.  Every value is a pair <<tag, payload>>.             *)
(***************************************************************************)
Undef == <<"u", "">>
Null == <<"null", "">>
Prim(s) == <<"p", s>>
Obj(m) == <<"o", m>>
List(l) == <<"l", l>>
Num(n) == <<"n", n>>
Bool(b) == <<"b", b>>
Date(iso) == <<"date", iso>>
File(name) == <<"file", name>>
Blob == <<"blob", "">>
FormData(entries) == <<"f", entries>>
Entries(entries) == <<"e", entries>>

IsObj(v) == v[1] = "o"
IsStr(v) == v[1] = "p"
IsArray(v) == v[1] = "l"
IsFormData(v) == v[1] = "f"

\* JavaScript truthiness: undefined and the empty string are falsy, arrays
\* (the empty one too) and objects are truthy.
Truthy(v) == v # Undef /\ v # Prim("")

\* Array.prototype.includes on a sequence
Includes(list, x) == \E i \in 1..Len(list) : list[i] = x

\* A plain object is a function from its own keys to values.
\* Array.prototype.reverse
Reverse(l) == [i \in 1..Len(l) |-> l[Len(l) + 1 - i]]

EmptyObject == <<>>
Has(m, k) == k \in DOMAIN m
Get(m, k) == IF k \in DOMAIN m THEN m[k] ELSE Undef

\* { ...a, ...b }
Spread(a, b) ==
  [k \in (DOMAIN a) \cup (DOMAIN b) |-> IF k \in DOMAIN b THEN b[k] ELSE a[k]]

\* The order in which the keys of an object are visited.
KeyOrder ==
  <<"name", "user", "id", "role", "extra", "customId", "secret", "user_name">>

RECURSIVE InOrder(_, _)
InOrder(keys, order) ==
  IF order = <<>> THEN <<>>
  ELSE IF Head(order) \in keys
       THEN <<Head(order)>> \o InOrder(keys, Tail(order))
       ELSE InOrder(keys, Tail(order))

ObjectKeys(m) == InOrder(DOMAIN m, KeyOrder)

(***************************************************************************)
(* The validation engine (zod).  A schema is a record with a type field.   *)
(***************************************************************************)
ZString(min) == [type |-> "string", min |-> min]
ZUnknown == [type |-> "unknown"]
ZOptional(inner) == [type |-> "optional", inner |-> inner]
ZObject(shape, unknownKeys) ==
  [type |-> "object", shape |-> shape, unknownKeys |-> unknownKeys]
ZUnion(options) == [type |-> "union", options |-> options]

IsZodObject(s) == s.type = "object"

\* z.object(...).strict() / .passthrough() / .strip()
Strict(s) == ZObject(s.shape, "strict")
Passthrough(s) == ZObject(s.shape, "passthrough")
Strip(s) == ZObject(s.shape, "strip")

\* a.extend(fields): the new fields replace or add to the shape, the
\* unknown-key policy of a is kept.
Extend(a, fields) == ZObject(Spread(a.shape, fields), a.unknownKeys)

\* a.merge(b): the shape of b wins, and so does b's unknown-key policy.
Merge(a, b) == ZObject(Spread(a.shape, b.shape), b.unknownKeys)

\* a.partial(): every top-level field is wrapped in optional.
Partial(a) ==
  ZObject([k \in DOMAIN a.shape |-> ZOptional(a.shape[k])], a.unknownKeys)

Issue(code, path, message, keys) ==
  [code |-> code, path |-> path, message |-> message, keys |-> keys]

Success(v) == [success |-> TRUE, data |-> v, issues |-> <<>>]
Failure(issues) == [success |-> FALSE, data |-> Undef, issues |-> issues]

Prefix(k, issues) ==
  [i \in 1..Len(issues) |->
     Issue(issues[i].code, <<k>> \o issues[i].path, issues[i].message,
           issues[i].keys)]

RECURSIVE ConcatAll(_, _)
ConcatAll(f, keys) ==
  IF keys = <<>> THEN <<>>
  ELSE f[Head(keys)] \o ConcatAll(f, Tail(keys))

RECURSIVE SafeParse(_, _)
RECURSIVE FirstSuccess(_, _)

FirstSuccess(options, v) ==
  IF options = <<>>
  THEN Failure(<<Issue("invalid_union", <<>>, "Invalid input", {})>>)
  ELSE LET r == SafeParse(Head(options), v)
       IN IF r.success THEN r ELSE FirstSuccess(Tail(options), v)

ParseObject(s, v) ==
  IF ~IsObj(v)
  THEN Failure(<<Issue("invalid_type", <<>>, "Invalid input: expected object", {})>>)
  ELSE
    LET m == v[2]
        declared == DOMAIN s.shape
        r == [k \in declared |-> SafeParse(s.shape[k], Get(m, k))]
        fieldIssues ==
          ConcatAll([k \in declared |-> Prefix(k, r[k].issues)],
                    InOrder(declared, KeyOrder))
        unknown == (DOMAIN m) \ declared
        keyIssues ==
          IF s.unknownKeys = "strict" /\ unknown # {}
          THEN <<Issue("unrecognized_keys", <<>>, "Unrecognized key", unknown)>>
          ELSE <<>>
        kept == {k \in declared : r[k].success /\ r[k].data # Undef}
                  \cup (IF s.unknownKeys = "passthrough" THEN unknown ELSE {})
        out == [k \in kept |-> IF k \in declared THEN r[k].data ELSE m[k]]
        issues == fieldIssues \o keyIssues
    IN IF issues = <<>> THEN Success(Obj(out)) ELSE Failure(issues)

SafeParse(s, v) ==
  CASE s.type = "unknown" -> Success(v)
    [] s.type = "optional" ->
         IF v = Undef THEN Success(Undef) ELSE SafeParse(s.inner, v)
    [] s.type = "string" ->
         IF ~IsStr(v)
         THEN Failure(<<Issue("invalid_type", <<>>,
                              "Invalid input: expected string", {})>>)
         ELSE IF Len(v[2]) < s.min
              THEN Failure(<<Issue("too_small", <<>>, "Too small", {})>>)
              ELSE Success(v)
    [] s.type = "object" -> ParseObject(s, v)
    [] s.type = "union" -> FirstSuccess(s.options, v)

(***************************************************************************)
(* createDynamicZodSchema                                                  *)
(***************************************************************************)
\* A parameter with a default value: "undefined" stands for an argument
\* that was not given.
DefaultArg(a, d) == IF a = "undefined" THEN d ELSE a

RECURSIVE MergeAll_FirstWins(_, _)
\* Variant: curr.merge(acc), so that an earlier declaration of a field wins.
MergeAll_FirstWins(acc, schemas) ==
  IF schemas = <<>> THEN acc
  ELSE MergeAll_FirstWins(Merge(Head(schemas), acc), Tail(schemas))

RECURSIVE MergeAll(_, _)
\* additionalSchemas.reduce((acc, curr) => acc.merge(curr), schema)
MergeAll(acc, schemas) ==
  IF schemas = <<>> THEN acc
  ELSE MergeAll(Merge(acc, Head(schemas)), Tail(schemas))

\* Variant: the union lists the additional schemas before the base schema.
StructuralStep_OrBaseLast(baseSchema, schemaModification, additionalSchemas) ==
  CASE schemaModification = "mergeWithAnd" ->
         MergeAll(baseSchema, additionalSchemas)
    [] schemaModification = "mergeWithOr" ->
         ZUnion(additionalSchemas \o <<baseSchema>>)
    [] OTHER -> baseSchema

\* Step 1: the structural modification.
StructuralStep(baseSchema, schemaModification, additionalSchemas) ==
  CASE schemaModification = "mergeWithAnd" ->
         MergeAll(baseSchema, additionalSchemas)
    [] schemaModification = "mergeWithOr" ->
         ZUnion(<<baseSchema>> \o additionalSchemas)
    [] OTHER -> baseSchema

\* case 'allowExtraFields'
AllowExtraFields(objectSchema, inputData) ==
  LET dynamicFields ==
        [k \in {key \in DOMAIN inputData : key \notin DOMAIN objectSchema.shape}
           |-> ZUnknown]
  IN IF DOMAIN dynamicFields # {}
     THEN Extend(objectSchema, dynamicFields)
     ELSE Passthrough(objectSchema)

\* Variants of the strategy step with one strategy mishandled.
StrategyStep_StrictKeepsBasePolicy(schema, inputData, validationStrategy) ==
  IF IsZodObject(schema)
  THEN CASE validationStrategy = "allowExtraFields" ->
              AllowExtraFields(schema, inputData)
         [] validationStrategy = "removeExtraFields" -> Strip(schema)
         [] validationStrategy = "partial-strict" -> Strict(Partial(schema))
         [] validationStrategy = "partial" -> Passthrough(Partial(schema))
         [] OTHER -> schema
  ELSE schema

StrategyStep_RemoveExtraPassesThrough(schema, inputData, validationStrategy) ==
  IF IsZodObject(schema)
  THEN CASE validationStrategy = "allowExtraFields" ->
              AllowExtraFields(schema, inputData)
         [] validationStrategy = "removeExtraFields" -> Passthrough(schema)
         [] validationStrategy = "partial-strict" -> Strict(Partial(schema))
         [] validationStrategy = "partial" -> Passthrough(Partial(schema))
         [] OTHER -> Strict(schema)
  ELSE schema

StrategyStep_PartialNotOptional(schema, inputData, validationStrategy) ==
  IF IsZodObject(schema)
  THEN CASE validationStrategy = "allowExtraFields" ->
              AllowExtraFields(schema, inputData)
         [] validationStrategy = "removeExtraFields" -> Strip(schema)
         [] validationStrategy = "partial-strict" -> Strict(Partial(schema))
         [] validationStrategy = "partial" -> Passthrough(schema)
         [] OTHER -> Strict(schema)
  ELSE schema

StrategyStep_PartialStrictNotStrict(schema, inputData, validationStrategy) ==
  IF IsZodObject(schema)
  THEN CASE validationStrategy = "allowExtraFields" ->
              AllowExtraFields(schema, inputData)
         [] validationStrategy = "removeExtraFields" -> Strip(schema)
         [] validationStrategy = "partial-strict" -> Partial(schema)
         [] validationStrategy = "partial" -> Passthrough(Partial(schema))
         [] OTHER -> Strict(schema)
  ELSE schema

\* Variant: on a union the strategy is applied to every member.
StrategyStep_AppliesToMembers(schema, inputData, validationStrategy) ==
  LET onObject(s) ==
        CASE validationStrategy = "allowExtraFields" ->
               AllowExtraFields(s, inputData)
          [] validationStrategy = "removeExtraFields" -> Strip(s)
          [] validationStrategy = "partial-strict" -> Strict(Partial(s))
          [] validationStrategy = "partial" -> Passthrough(Partial(s))
          [] OTHER -> Strict(s)
  IN IF IsZodObject(schema)
     THEN onObject(schema)
     ELSE ZUnion([i \in 1..Len(schema.options) |-> onObject(schema.options[i])])

\* Step 2: the validation strategy, on an object schema only.
StrategyStep(schema, inputData, validationStrategy) ==
  IF IsZodObject(schema)
  THEN CASE validationStrategy = "allowExtraFields" ->
              AllowExtraFields(schema, inputData)
         [] validationStrategy = "removeExtraFields" -> Strip(schema)
         [] validationStrategy = "partial-strict" -> Strict(Partial(schema))
         [] validationStrategy = "partial" -> Passthrough(Partial(schema))
         [] OTHER -> Strict(schema)
  ELSE schema

\* The console.warn of the non-object branch.
StrategyWarning(schema, validationStrategy) ==
  IF ~IsZodObject(schema) /\ validationStrategy # "strict"
  THEN <<validationStrategy>>
  ELSE <<>>

\* Variant: the strategy is applied to the base schema, and the structural
\* modification to the result.
createDynamicZodSchema_StrategyFirst(baseSchema, inputData, validationStrategy, schemaModification, additionalSchemas) ==
  StructuralStep(
    StrategyStep(baseSchema, inputData, DefaultArg(validationStrategy, "strict")),
    DefaultArg(schemaModification, "default"),
    additionalSchemas)

createDynamicZodSchema(baseSchema, inputData, validationStrategy, schemaModification, additionalSchemas) ==
  StrategyStep(
    StructuralStep(baseSchema, DefaultArg(schemaModification, "default"),
                   additionalSchemas),
    inputData,
    DefaultArg(validationStrategy, "strict"))

createDynamicZodSchemaWarnings(baseSchema, validationStrategy, schemaModification, additionalSchemas) ==
  StrategyWarning(
    StructuralStep(baseSchema, DefaultArg(schemaModification, "default"),
                   additionalSchemas),
    DefaultArg(validationStrategy, "strict"))

(***************************************************************************)
(* extractDataFromFormData                                                 *)
(*                                                                         *)
(* An input container is FormData(entries), a FormData with its entries in *)
(* append order (keys may repeat), or Entries(entries), a plain object     *)
(* with its entries in Object.entries order (keys distinct).               *)
(* Options hold keyTransforms (a function from keys to new names),         *)
(* excludeFields (a sequence) and includeFields (Undef or List(seq)).      *)
(***************************************************************************)
\* Variant: a key on the include list is kept even when it is excluded.
shouldProcessKey_IncludeWins(options, key) ==
  IF Truthy(options.includeFields) /\ Includes(options.includeFields[2], key)
  THEN TRUE
  ELSE IF Includes(options.excludeFields, key) THEN FALSE
  ELSE ~Truthy(options.includeFields)

shouldProcessKey(options, key) ==
  IF Includes(options.excludeFields, key) THEN FALSE
  ELSE IF Truthy(options.includeFields)
          /\ ~Includes(options.includeFields[2], key) THEN FALSE
  ELSE TRUE

\* keyTransforms[key] || key
transformKey(options, key) ==
  IF key \in DOMAIN options.keyTransforms /\ options.keyTransforms[key] # ""
  THEN options.keyTransforms[key]
  ELSE key

\* FormData.getAll(key)
RECURSIVE GetAll(_, _)
GetAll(entries, key) ==
  IF entries = <<>> THEN <<>>
  ELSE IF Head(entries)[1] = key
       THEN <<Head(entries)[2]>> \o GetAll(Tail(entries), key)
       ELSE GetAll(Tail(entries), key)

\* Variant: an assignment to a key that is already set is ignored.
SetKey_KeepsFirst(m, key, value) ==
  [k \in (DOMAIN m) \cup {key} |->
     IF k \in DOMAIN m THEN m[k] ELSE value]

\* result[key] = value
SetKey(m, key, value) ==
  [k \in (DOMAIN m) \cup {key} |-> IF k = key THEN value ELSE m[k]]

RECURSIVE ExtractFormData_SingleAsList(_, _, _, _, _)
\* Variant: the values of a key are always stored as a list.
ExtractFormData_SingleAsList(all, rest, options, acc, processedKeys) ==
  IF rest = <<>> THEN acc
  ELSE
    LET key == Head(rest)[1]
    IN IF ~shouldProcessKey(options, key)
       THEN ExtractFormData_SingleAsList(all, Tail(rest), options, acc,
                                         processedKeys)
       ELSE IF key \in processedKeys
       THEN ExtractFormData_SingleAsList(all, Tail(rest), options, acc,
                                         processedKeys)
       ELSE ExtractFormData_SingleAsList(
              all, Tail(rest), options,
              SetKey(acc, transformKey(options, key), List(GetAll(all, key))),
              processedKeys \cup {key})

RECURSIVE ExtractFormData(_, _, _, _, _)
\* data.forEach((value, key) => ...) of the FormData branch
ExtractFormData(all, rest, options, acc, processedKeys) ==
  IF rest = <<>> THEN acc
  ELSE
    LET key == Head(rest)[1]
    IN IF ~shouldProcessKey(options, key)
       THEN ExtractFormData(all, Tail(rest), options, acc, processedKeys)
       ELSE IF key \in processedKeys
       THEN ExtractFormData(all, Tail(rest), options, acc, processedKeys)
       ELSE
         LET allValues == GetAll(all, key)
             value == IF Len(allValues) > 1 THEN List(allValues)
                      ELSE allValues[1]
         IN ExtractFormData(all, Tail(rest), options,
                            SetKey(acc, transformKey(options, key), value),
                            processedKeys \cup {key})

RECURSIVE ExtractObject_FilterOnNewName(_, _, _)
\* Variant: the filters are applied to the renamed key.
ExtractObject_FilterOnNewName(rest, options, acc) ==
  IF rest = <<>> THEN acc
  ELSE
    LET key == Head(rest)[1]
    IN IF ~shouldProcessKey(options, transformKey(options, key))
       THEN ExtractObject_FilterOnNewName(Tail(rest), options, acc)
       ELSE ExtractObject_FilterOnNewName(
              Tail(rest), options,
              SetKey(acc, transformKey(options, key), Head(rest)[2]))

RECURSIVE ExtractObject(_, _, _)
\* Object.entries(data).forEach(([key, value]) => ...)
ExtractObject(rest, options, acc) ==
  IF rest = <<>> THEN acc
  ELSE
    LET key == Head(rest)[1]
    IN IF ~shouldProcessKey(options, key)
       THEN ExtractObject(Tail(rest), options, acc)
       ELSE ExtractObject(Tail(rest), options,
                          SetKey(acc, transformKey(options, key), Head(rest)[2]))

\* const { keyTransforms = {}, excludeFields = [], includeFields } = options
ExtractDefaults(options) ==
  [keyTransforms |-> options.keyTransforms,
   excludeFields |-> options.excludeFields,
   includeFields |-> options.includeFields]

extractDataFromFormData(data, options) ==
  IF IsFormData(data)
  THEN ExtractFormData(data[2], data[2], ExtractDefaults(options),
                       EmptyObject, {})
  ELSE ExtractObject(data[2], ExtractDefaults(options), EmptyObject)

(***************************************************************************)
(* applyDataTransformations                                                *)
(***************************************************************************)
\* The transformation functions a caller may pass, by name.
ApplyFn(fn, v) ==
  CASE fn = "double" -> IF IsStr(v) THEN Prim(v[2] \o v[2]) ELSE v
    [] fn = "blank" -> Prim("")
    [] fn = "reverse" -> IF IsArray(v) THEN List(Reverse(v[2])) ELSE v
    [] OTHER -> v

\* The value passed to a transformation function, as it is once the
\* function has returned: Array.prototype.reverse reverses the array it is
\* called on, the other functions leave their argument alone.
ArgumentAfter(fn, v) ==
  IF fn = "reverse" /\ IsArray(v) THEN List(Reverse(v[2])) ELSE v

\* Variant: transformedData is data itself, not a copy of it.
applyDataTransformationsInput_NoCopy(data, transformations) ==
  [k \in DOMAIN data |->
     IF k \in DOMAIN transformations
     THEN ApplyFn(transformations[k], data[k])
     ELSE data[k]]

\* The caller's data once applyDataTransformations has returned: every
\* write goes to the copy { ...data }, which shares the values of data, and
\* data[key] is handed to the transformation function as it is.
applyDataTransformationsInput(data, transformations) ==
  [k \in DOMAIN data |->
     IF k \in DOMAIN transformations
     THEN ArgumentAfter(transformations[k], data[k])
     ELSE data[k]]

applyDataTransformations(data, transformations) ==
  [k \in DOMAIN data |->
     IF k \in DOMAIN transformations
     THEN ApplyFn(transformations[k], data[k])
     ELSE data[k]]

(***************************************************************************)
(* validateDataWithDynamicSchema                                           *)
(***************************************************************************)
validateDataWithDynamicSchema(baseSchema, data, validationStrategy, schemaModification, additionalSchemas) ==
  SafeParse(createDynamicZodSchema(baseSchema, data, validationStrategy,
                                   schemaModification, additionalSchemas),
            Obj(data))

(***************************************************************************)
(* zod-error-formatters                                                    *)
(***************************************************************************)
RECURSIVE Join(_, _)
\* Array.prototype.join
Join(parts, sep) ==
  IF parts = <<>> THEN ""
  ELSE IF Len(parts) = 1 THEN parts[1]
  ELSE parts[1] \o sep \o Join(Tail(parts), sep)

RECURSIVE ErrorsObject_FirstWins(_, _)
\* Variant: a path that already has a message keeps it.
ErrorsObject_FirstWins(issues, errors) ==
  IF issues = <<>> THEN errors
  ELSE ErrorsObject_FirstWins(
         Tail(issues),
         IF Join(Head(issues).path, ".") \in DOMAIN errors
         THEN errors
         ELSE SetKey(errors, Join(Head(issues).path, "."), Head(issues).message))

RECURSIVE ErrorsObject(_, _)
ErrorsObject(issues, errors) ==
  IF issues = <<>> THEN errors
  ELSE ErrorsObject(Tail(issues),
                    SetKey(errors, Join(Head(issues).path, "."),
                           Head(issues).message))

\* Variant: an issue without a path is left out of the map.
formatZodErrorsAsObject_SkipsRoot(r) ==
  IF r.success THEN EmptyObject
  ELSE ErrorsObject(SelectSeq(r.issues, LAMBDA i : i.path # <<>>), EmptyObject)

formatZodErrorsAsObject(r) ==
  IF r.success THEN EmptyObject ELSE ErrorsObject(r.issues, EmptyObject)

\* Variant: errors.unshift(...), so that the last issue comes first.
formatZodErrorsAsArray_Reversed(r) ==
  IF r.success THEN <<>>
  ELSE [i \in 1..Len(r.issues) |->
          [key |-> Join(r.issues[Len(r.issues) + 1 - i].path, "."),
           message |-> r.issues[Len(r.issues) + 1 - i].message]]

formatZodErrorsAsArray(r) ==
  IF r.success THEN <<>>
  ELSE [i \in 1..Len(r.issues) |->
          [key |-> Join(r.issues[i].path, "."), message |-> r.issues[i].message]]

(***************************************************************************)
(* convertObjectToFormData                                                 *)
(***************************************************************************)
Digits == <<"0", "1", "2", "3", "4", "5", "6", "7", "8", "9">>

RECURSIVE NumToString(_)
NumToString(n) ==
  IF n < 0 THEN "-" \o NumToString(0 - n)
  ELSE IF n < 10 THEN Digits[n + 1]
  ELSE NumToString(n \div 10) \o Digits[(n % 10) + 1]

isPlainObject(v) == IsObj(v)

RECURSIVE String(_)
RECURSIVE StringAll(_)
\* String(value)
String(v) ==
  CASE v[1] = "p" -> v[2]
    [] v[1] = "n" -> NumToString(v[2])
    [] v[1] = "b" -> IF v[2] THEN "true" ELSE "false"
    [] v[1] = "u" -> "undefined"
    [] v[1] = "null" -> "null"
    [] v[1] = "l" -> Join(StringAll(v[2]), ",")
    [] v[1] = "date" -> v[2]
    [] v[1] = "file" -> "[object File]"
    [] v[1] = "blob" -> "[object Blob]"
    [] OTHER -> "[object Object]"

StringAll(l) == [i \in 1..Len(l) |-> String(l[i])]

RECURSIVE appendDataRecursively(_, _)
RECURSIVE AppendItems(_, _, _)
RECURSIVE AppendProperties(_, _, _)

RECURSIVE AppendItems_IndexedKeys(_, _, _)
\* Variant: every element of an array, primitive or not, is appended under
\* key[index].
AppendItems_IndexedKeys(key, items, i) ==
  IF i > Len(items) THEN <<>>
  ELSE (IF IsArray(items[i]) \/ isPlainObject(items[i])
        THEN appendDataRecursively(
               key \o "[" \o NumToString(i - 1) \o "]", items[i])
        ELSE <<<<key \o "[" \o NumToString(i - 1) \o "]",
                 Prim(String(items[i]))>>>>)
       \o AppendItems_IndexedKeys(key, items, i + 1)

\* value.forEach((item, index) => ...): items from position i on
AppendItems(key, items, i) ==
  IF i > Len(items) THEN <<>>
  ELSE (IF IsArray(items[i]) \/ isPlainObject(items[i])
        THEN appendDataRecursively(
               key \o "[" \o NumToString(i - 1) \o "]", items[i])
        ELSE <<<<key, Prim(String(items[i]))>>>>)
       \o AppendItems(key, items, i + 1)

\* Object.entries(value).forEach(([propertyKey, propertyValue]) => ...)
AppendProperties(key, m, keys) ==
  IF keys = <<>> THEN <<>>
  ELSE appendDataRecursively(key \o "[" \o Head(keys) \o "]", m[Head(keys)])
       \o AppendProperties(key, m, Tail(keys))

\* Variant: nothing is appended for null or undefined.
appendDataRecursively_SkipsNull(key, value) ==
  CASE value = Null \/ value = Undef -> <<>>
    [] value[1] = "file" -> <<<<key, value>>>>
    [] value[1] = "blob" -> <<<<key, value>>>>
    [] value[1] = "date" -> <<<<key, Prim(value[2])>>>>
    [] IsArray(value) -> AppendItems(key, value[2], 1)
    [] isPlainObject(value) -> AppendProperties(key, value[2], ObjectKeys(value[2]))
    [] OTHER -> <<<<key, Prim(String(value))>>>>

\* The entries one call appends to sendFormData, in order.
appendDataRecursively(key, value) ==
  CASE value = Null \/ value = Undef -> <<<<key, Prim("")>>>>
    [] value[1] = "file" -> <<<<key, value>>>>
    [] value[1] = "blob" -> <<<<key, value>>>>
    [] value[1] = "date" -> <<<<key, Prim(value[2])>>>>
    [] IsArray(value) -> AppendItems(key, value[2], 1)
    [] isPlainObject(value) -> AppendProperties(key, value[2], ObjectKeys(value[2]))
    [] OTHER -> <<<<key, Prim(String(value))>>>>

RECURSIVE AppendTopLevel(_, _)
AppendTopLevel(m, keys) ==
  IF keys = <<>> THEN <<>>
  ELSE appendDataRecursively(Head(keys), m[Head(keys)])
       \o AppendTopLevel(m, Tail(keys))

convertObjectToFormData(inputObject) ==
  FormData(AppendTopLevel(inputObject, ObjectKeys(inputObject)))

(***************************************************************************)
(* processAndValidateFormData, step by step                                *)
(***************************************************************************)
\* const { transformations = {}, outputFormat = 'object', additionalData = {},
\*         validationStrategy = 'strict', schemaModification = 'default',
\*         additionalSchemas = [], ...extractOptions } = options
\* useDynamicValidation is not destructured: it stays in extractOptions,
\* where extractDataFromFormData does not read it.
extractOptions(options) ==
  [keyTransforms |-> options.keyTransforms,
   excludeFields |-> options.excludeFields,
   includeFields |-> options.includeFields,
   useDynamicValidation |-> options.useDynamicValidation]

\* Variant: outputFormat is ignored and the object is returned.
SuccessResult_AlwaysObject(options, r) ==
  [success |-> TRUE, data |-> r.data]

\* The value returned when validation succeeded.
SuccessResult(options, r) ==
  IF DefaultArg(options.outputFormat, "object") = "formData"
  THEN [success |-> TRUE, data |-> convertObjectToFormData(r.data[2])]
  ELSE [success |-> TRUE, data |-> r.data]

\* Variant: the failure result carries validationResult.data, which a
\* failed parse leaves undefined.
FailureResult_ValidatorData(data, r) ==
  LET errorsInArray == formatZodErrorsAsArray(r)
  IN [success |-> FALSE,
      data |-> r.data,
      errors |-> formatZodErrorsAsObject(r),
      errorsInArray |-> errorsInArray,
      errorsInString |->
        Join([i \in 1..Len(errorsInArray) |-> errorsInArray[i].message], "\n")]

\* The value returned when validation failed.
FailureResult(data, r) ==
  LET errorsInArray == formatZodErrorsAsArray(r)
  IN [success |-> FALSE,
      data |-> Obj(data),
      errors |-> formatZodErrorsAsObject(r),
      errorsInArray |-> errorsInArray,
      errorsInString |->
        Join([i \in 1..Len(errorsInArray) |-> errorsInArray[i].message], "\n")]

(***************************************************************************)
(* The schemas and data the specifications draw from.                      *)
(***************************************************************************)
MaxAux == 2          \* additional schemas per call
MaxEntries == 3      \* entries of an input container (extraction alone)
MaxInput == 2        \* entries of an input container (whole pipeline)

UnknownKeyPolicies == {"strip", "strict", "passthrough"}
Strategies ==
  {"strict", "allowExtraFields", "removeExtraFields", "partial-strict", "partial"}
StrategyArgs == Strategies \cup {"undefined"}
Modifications == {"default", "mergeWithAnd", "mergeWithOr"}

UserSchema == ZObject([id |-> ZString(1)], "strip")
BaseShape == [name |-> ZString(2), user |-> UserSchema]
BaseSchemas == {ZObject(BaseShape, p) : p \in UnknownKeyPolicies}

RoleSchema == ZObject([role |-> ZString(1)], "strip")
NameSchema == ZObject([name |-> ZString(1)], "passthrough")
LongNameSchema == ZObject([name |-> ZString(5)], "strict")
AuxSchemas == {RoleSchema, NameSchema, LongNameSchema}

\* Sequences of elements of S, of length at most n
RECURSIVE SeqsUpTo(_, _)
SeqsUpTo(S, n) ==
  IF n = 0 THEN {<<>>}
  ELSE LET shorter == SeqsUpTo(S, n - 1)
       IN shorter \cup {Append(q, x) : q \in shorter, x \in S}

\* Sequences of distinct elements of S, of length at most n
DistinctSeqs(S, n) ==
  {q \in SeqsUpTo(S, n) : \A i, j \in 1..Len(q) : i # j => q[i] # q[j]}

\* Every object that gives each key of a subset of DOMAIN choices one of
\* the values choices allows for it.
ObjectsOver(choices) ==
  UNION {[K -> UNION {choices[k] : k \in K}] : K \in SUBSET DOMAIN choices}

WellTyped(m, choices) == \A k \in DOMAIN m : m[k] \in choices[k]

DataChoices ==
  [name |-> {Prim("J"), Prim("John")},
   user |-> {Obj(EmptyObject), Obj([id |-> Prim("u1")])},
   role |-> {Prim("admin")},
   extra |-> {Prim("field")},
   customId |-> {Prim("123")}]

\* The objects handed to safeParse.
DataObjects == {m \in ObjectsOver(DataChoices) : WellTyped(m, DataChoices)}

\* Values of the variables a specification does not use.
NoSchema == [type |-> "none"]
NoResult == [success |-> FALSE, data |-> Undef, issues |-> <<>>]
NoReturn == [success |-> FALSE, data |-> Undef]

(***************************************************************************)
(* SpecSchema: createDynamicZodSchema(baseSchema, inputData, strategy,     *)
(* modification, additionalSchemas) followed by safeParse(data) on the     *)
(* schema it returned.                                                     *)
(***************************************************************************)
ModificationArgs == Modifications \cup {"undefined"}

AuxLists == DistinctSeqs(AuxSchemas, MaxAux)

\* The inputData a caller may give besides the data itself.
InputDataChoices(data) ==
  {data, EmptyObject, [extra |-> Prim("field")]}

InitSchema ==
  /\ pc = "build"
  /\ \E baseSchema \in BaseSchemas, data \in DataObjects,
        validationStrategy \in StrategyArgs,
        schemaModification \in ModificationArgs,
        additionalSchemas \in AuxLists :
       /\ schemaModification \in {"undefined", "default"}
            => Len(additionalSchemas) <= 1
       /\ \E inputData \in InputDataChoices(data) :
            args = [baseSchema |-> baseSchema,
                    inputData |-> inputData,
                    validationStrategy |-> validationStrategy,
                    schemaModification |-> schemaModification,
                    additionalSchemas |-> additionalSchemas,
                    data |-> data]
  /\ extractedFormData = EmptyObject
  /\ dataToProcess = EmptyObject
  /\ dynamicSchema = NoSchema
  /\ validationResult = NoResult
  /\ result = NoReturn

BuildSchema ==
  /\ pc = "build"
  /\ dynamicSchema' =
       createDynamicZodSchema(args.baseSchema, args.inputData,
                              args.validationStrategy, args.schemaModification,
                              args.additionalSchemas)
  /\ pc' = "parse"
  /\ UNCHANGED <<args, extractedFormData, dataToProcess, validationResult, result>>

ParseData ==
  /\ pc = "parse"
  /\ validationResult' = SafeParse(dynamicSchema, Obj(args.data))
  /\ pc' = "done"
  /\ UNCHANGED <<args, extractedFormData, dataToProcess, dynamicSchema, result>>

NextSchema == BuildSchema \/ ParseData

SpecSchema == InitSchema /\ [][NextSchema]_vars

(***************************************************************************)
(* Properties of the built schema (checked under SpecSchema)               *)
(***************************************************************************)
Parsed == pc = "done"
GivenStrategy == DefaultArg(args.validationStrategy, "strict")
GivenModification == DefaultArg(args.schemaModification, "default")

\* The effective schema is an object schema: no union was built.
ObjectShaped == GivenModification \in {"default", "mergeWithAnd"}

\* The schema the strategy is applied to.
EffectiveSchema ==
  StructuralStep(args.baseSchema, GivenModification, args.additionalSchemas)

DeclaredKeys == DOMAIN EffectiveSchema.shape
UndeclaredKeys == (DOMAIN args.data) \ DeclaredKeys

\* Every declared field, present or not, satisfies its declaration.
DeclaredFieldsValid ==
  \A k \in DeclaredKeys :
    SafeParse(EffectiveSchema.shape[k], Get(args.data, k)).success

\* Every declared field that the data carries satisfies its declaration.
PresentFieldsValid ==
  \A k \in DeclaredKeys \cap DOMAIN args.data :
    SafeParse(EffectiveSchema.shape[k], args.data[k]).success

Output == validationResult.data[2]

NoUnrecognizedKeyIssue ==
  \A i \in 1..Len(validationResult.issues) :
    validationResult.issues[i].code # "unrecognized_keys"

\* C2: with strategy allowExtraFields on an object-shaped schema, no
\* undeclared key of the data is rejected and every undeclared key of the
\* data is retained in the output, for every inputData and every unknown-key
\* policy of the base schema.
C2_AllowExtraRetainsEveryKey ==
  (Parsed /\ ObjectShaped /\ GivenStrategy = "allowExtraFields") =>
    /\ NoUnrecognizedKeyIssue
    /\ validationResult.success =>
         \A k \in UndeclaredKeys : Get(Output, k) = args.data[k]

C4_RemoveExtraStrips ==
  (Parsed /\ ObjectShaped /\ GivenStrategy = "removeExtraFields") =>
    /\ DeclaredFieldsValid => validationResult.success
    /\ validationResult.success => DOMAIN Output \subseteq DeclaredKeys

C4_Witness ==
  /\ Parsed
  /\ GivenStrategy = "removeExtraFields"
  /\ ObjectShaped
  /\ args.baseSchema.unknownKeys = "strict"
  /\ UndeclaredKeys = {"extra", "customId"}
  /\ validationResult.success
  /\ DOMAIN Output = DeclaredKeys

\* A declared object field that is present but lacks a required field of
\* its own.
NestedRequiredMissing ==
  \E k \in DeclaredKeys \cap DOMAIN args.data :
    /\ IsZodObject(EffectiveSchema.shape[k])
    /\ IsObj(args.data[k])
    /\ \E f \in DOMAIN EffectiveSchema.shape[k].shape :
         /\ EffectiveSchema.shape[k].shape[f].type = "string"
         /\ f \notin DOMAIN args.data[k][2]

C6_PartialStrict ==
  (Parsed /\ ObjectShaped /\ GivenStrategy = "partial-strict") =>
    /\ UndeclaredKeys # {} => ~validationResult.success
    /\ (UndeclaredKeys = {} /\ PresentFieldsValid) => validationResult.success

C6_Witness ==
  /\ Parsed
  /\ GivenStrategy = "partial-strict"
  /\ ObjectShaped
  /\ args.baseSchema.unknownKeys = "passthrough"
  /\ DOMAIN args.data = {"user"}
  /\ "name" \in DeclaredKeys
  /\ validationResult.success

\* The schemas in merge order, and the last of them that declares a field.
Chain == <<args.baseSchema>> \o args.additionalSchemas
ChainKeys == UNION {DOMAIN Chain[i].shape : i \in 1..Len(Chain)}
LastDeclaration(k) ==
  LET last == CHOOSE i \in 1..Len(Chain) :
                /\ k \in DOMAIN Chain[i].shape
                /\ \A j \in (i + 1)..Len(Chain) : k \notin DOMAIN Chain[j].shape
  IN Chain[last].shape[k]

\* The declaration a field is judged by, given the strategy.
JudgedBy(k) ==
  IF GivenStrategy \in {"partial", "partial-strict"}
  THEN ZOptional(LastDeclaration(k))
  ELSE LastDeclaration(k)

\* Some issue of the validation is on field k.
FieldRejected(k) ==
  \E i \in 1..Len(validationResult.issues) :
    /\ validationResult.issues[i].path # <<>>
    /\ validationResult.issues[i].path[1] = k

Accepting == {i \in 1..Len(Chain) : SafeParse(Chain[i], Obj(args.data)).success}

\* C17: under mergeWithOr the effective schema is the alternative of base,
\* aux[0], aux[1], ... in that order: the data is accepted iff at least one
\* member accepts it, the output is the one of the first member that
\* accepts it, and data that no member accepts is rejected.
C17_MergeWithOrFirstMatch ==
  (Parsed /\ GivenModification = "mergeWithOr") =>
    /\ EffectiveSchema = ZUnion(Chain)
    /\ validationResult.success <=> Accepting # {}
    /\ Accepting # {} =>
         LET first == CHOOSE i \in Accepting : \A j \in Accepting : i <= j
         IN validationResult.data = SafeParse(Chain[first], Obj(args.data)).data
    /\ Accepting = {} => validationResult.issues # <<>>

\* Two members accept the data and give different outputs: the output is
\* the one of the member that comes first.
C17_Witness ==
  /\ Parsed
  /\ GivenModification = "mergeWithOr"
  /\ args.baseSchema.unknownKeys = "strip"
  /\ args.additionalSchemas = <<NameSchema>>
  /\ "extra" \in DOMAIN args.data
  /\ validationResult.success
  /\ SafeParse(NameSchema, Obj(args.data)).success
  /\ "extra" \in DOMAIN SafeParse(NameSchema, Obj(args.data)).data[2]
  /\ "extra" \notin DOMAIN Output

\* The validation the same call gives with another strategy.
ParsedWith(strategy) ==
  SafeParse(createDynamicZodSchema(args.baseSchema, args.inputData, strategy,
                                   args.schemaModification,
                                   args.additionalSchemas),
            Obj(args.data))

\* The warnings the call printed.
Warnings ==
  createDynamicZodSchemaWarnings(args.baseSchema, args.validationStrategy,
                                 args.schemaModification, args.additionalSchemas)

\* C18: under mergeWithOr the strategy does not change the effective
\* schema: the built schema is the alternative itself, the validation result
\* is the same for all five strategies, and a strategy other than strict
\* only adds a warning.
C18_MergeWithOrIgnoresStrategy ==
  (Parsed /\ GivenModification = "mergeWithOr") =>
    /\ dynamicSchema = ZUnion(Chain)
    /\ \A strategy \in Strategies : ParsedWith(strategy) = validationResult
    /\ GivenStrategy # "strict" => Warnings = <<GivenStrategy>>
    /\ GivenStrategy = "strict" => Warnings = <<>>

\* removeExtraFields was asked for, a warning was printed, and the data is
\* rejected for its undeclared key by members that are strict themselves.
C18_Witness ==
  /\ Parsed
  /\ GivenModification = "mergeWithOr"
  /\ GivenStrategy = "removeExtraFields"
  /\ Warnings = <<"removeExtraFields">>
  /\ args.baseSchema.unknownKeys = "strict"
  /\ args.additionalSchemas = <<LongNameSchema>>
  /\ args.data = [name |-> Prim("John"), user |-> Obj([id |-> Prim("u1")]),
                  extra |-> Prim("field")]
  /\ ~validationResult.success

\* C19: under mergeWithOr, data that carries a key declared by none of the
\* members is rejected, whichever strategy was requested.
C19_MergeWithOrRejectsUndeclared ==
  (Parsed /\ GivenModification = "mergeWithOr"
     /\ (DOMAIN args.data) \ ChainKeys # {})
    => ~validationResult.success

\* C20: a schema built by createDynamicZodSchema(baseSchema, data), with no
\* strategy argument, accepts data that carries undeclared keys and returns
\* the data with those keys, while a declared field that the data carries
\* is still validated by its base declaration.
C20_DefaultAcceptsUndeclared ==
  (Parsed /\ args.validationStrategy = "undefined"
     /\ args.schemaModification = "undefined"
     /\ args.additionalSchemas = <<>>
     /\ args.inputData = args.data) =>
    /\ (UndeclaredKeys # {} /\ DeclaredFieldsValid) =>
         /\ validationResult.success
         /\ Output = args.data
    /\ ~PresentFieldsValid => ~validationResult.success

\* C21: a schema built by createDynamicZodSchema(baseSchema, data), with no
\* strategy argument, constrains only the fields that data carries: data
\* that omits required fields of baseSchema, the empty mapping included, is
\* accepted and returned unchanged.
C21_DefaultConstrainsPresentFieldsOnly ==
  (Parsed /\ args.validationStrategy = "undefined"
     /\ args.schemaModification = "undefined"
     /\ args.additionalSchemas = <<>>
     /\ args.inputData = args.data
     /\ UndeclaredKeys = {}
     /\ PresentFieldsValid) =>
    /\ validationResult.success
    /\ Output = args.data

\* The fields that only an additional schema declares.
AuxOnlyKeys == ChainKeys \ DOMAIN args.baseSchema.shape

\* The keys an unrecognized-keys issue of the validation names.
UnrecognizedKeys ==
  UNION {validationResult.issues[i].keys :
           i \in {j \in 1..Len(validationResult.issues) :
                    validationResult.issues[j].code = "unrecognized_keys"}}

\* C26: the structural modification comes before the strategy: under
\* mergeWithAnd the built schema is the strategy applied to the merged
\* schema, so a field that only an additional schema declares counts as
\* declared: strict and partial-strict do not reject it as unrecognized,
\* removeExtraFields keeps it in the output, partial and partial-strict make
\* it optional.
C26_StructureBeforeStrategy ==
  (Parsed /\ GivenModification = "mergeWithAnd") =>
    /\ dynamicSchema =
         StrategyStep(MergeAll(args.baseSchema, args.additionalSchemas),
                      args.inputData, GivenStrategy)
    /\ \A k \in AuxOnlyKeys :
         /\ k \in DOMAIN dynamicSchema.shape
         /\ k \notin UnrecognizedKeys
         /\ (GivenStrategy = "removeExtraFields" /\ validationResult.success
               /\ k \in DOMAIN args.data)
              => (k \in DOMAIN Output /\ Output[k] = args.data[k])
         /\ GivenStrategy \in {"partial", "partial-strict"}
              => /\ dynamicSchema.shape[k].type = "optional"
                 /\ k \notin DOMAIN args.data => ~FieldRejected(k)
         /\ (GivenStrategy \in {"strict", "removeExtraFields", "allowExtraFields"}
               /\ k \notin DOMAIN args.data)
              => FieldRejected(k)

\* partial-strict reaches the field of the additional schema: the data may
\* omit it.
C26_Witness ==
  /\ Parsed
  /\ GivenModification = "mergeWithAnd"
  /\ GivenStrategy = "partial-strict"
  /\ args.additionalSchemas = <<RoleSchema>>
  /\ args.data = [name |-> Prim("John")]
  /\ "role" \in AuxOnlyKeys
  /\ validationResult.success

(***************************************************************************)
(* SpecExtract: one call of extractDataFromFormData(data, options)         *)
(***************************************************************************)
ExtractKeys == {"user_name", "name", "secret"}
ExtractValues == {Prim("a"), Prim("b")}

DistinctKeys(entries) ==
  \A i, j \in 1..Len(entries) : i # j => entries[i][1] # entries[j][1]

EntryLists == SeqsUpTo(ExtractKeys \X ExtractValues, MaxEntries)

Containers ==
  {FormData(e) : e \in EntryLists}
    \cup {Entries(e) : e \in {q \in EntryLists : DistinctKeys(q)}}

KeyTransformChoices ==
  {EmptyObject,
   [user_name |-> "name"],
   [user_name |-> "secret"],
   [user_name |-> "name", name |-> "user_name"],
   [secret |-> "name"],
   [user_name |-> ""]}

ExcludeChoices == {<<>>, <<"secret">>, <<"name">>, <<"secret", "name">>}

IncludeChoices ==
  {Undef, List(<<>>), List(<<"name">>), List(<<"name", "secret">>),
   List(<<"user_name">>)}

InitExtract ==
  /\ pc = "extract"
  /\ \E data \in Containers, keyTransforms \in KeyTransformChoices,
        excludeFields \in ExcludeChoices, includeFields \in IncludeChoices :
       args = [data |-> data,
               options |-> [keyTransforms |-> keyTransforms,
                            excludeFields |-> excludeFields,
                            includeFields |-> includeFields]]
  /\ extractedFormData = EmptyObject
  /\ dataToProcess = EmptyObject
  /\ dynamicSchema = NoSchema
  /\ validationResult = NoResult
  /\ result = NoReturn

ExtractCall ==
  /\ pc = "extract"
  /\ extractedFormData' = extractDataFromFormData(args.data, args.options)
  /\ pc' = "done"
  /\ UNCHANGED <<args, dataToProcess, dynamicSchema, validationResult, result>>

NextExtract == ExtractCall

SpecExtract == InitExtract /\ [][NextExtract]_vars

(***************************************************************************)
(* Properties of the extraction (checked under SpecExtract)                *)
(***************************************************************************)
Extracted == pc = "done"
InputKeys == {args.data[2][i][1] : i \in 1..Len(args.data[2])}
Excluded(k) == Includes(args.options.excludeFields, k)
IncludeGiven == args.options.includeFields # Undef
OnIncludeList(k) == IncludeGiven /\ Includes(args.options.includeFields[2], k)

\* The name keyTransforms gives to an input key.
NewName(k) ==
  IF k \in DOMAIN args.options.keyTransforms
       /\ args.options.keyTransforms[k] # ""
  THEN args.options.keyTransforms[k]
  ELSE k

\* The filters, decided on the name the key has in the input.
PassesFilters(k) == ~Excluded(k) /\ (IncludeGiven => OnIncludeList(k))

\* C7 as claimed: a key listed in excludeFields is absent from the result,
\* for every input and every options record.
C7_ExcludedKeyAbsent ==
  Extracted => \A k \in ExtractKeys : Excluded(k) => k \notin DOMAIN extractedFormData

\* C7 as amended: a key listed in excludeFields is never taken from the
\* input, also when it is listed in includeFields: it is in the result only
\* when keyTransforms renames another input key, itself not excluded, to
\* that name.
C7_ExcludedKeyNotTaken ==
  Extracted =>
    \A k \in ExtractKeys :
      (Excluded(k) /\ k \in DOMAIN extractedFormData) =>
        \E j \in InputKeys : j # k /\ ~Excluded(j) /\ NewName(j) = k

C7_Witness ==
  /\ Extracted
  /\ "secret" \in InputKeys
  /\ Excluded("secret")
  /\ OnIncludeList("secret")
  /\ OnIncludeList("name")
  /\ "name" \in DOMAIN extractedFormData
  /\ "secret" \notin DOMAIN extractedFormData

\* C8: an includeFields that is present but empty filters nothing: the
\* result is the one obtained without includeFields.
C8_EmptyIncludeKeepsAll ==
  (Extracted /\ args.options.includeFields = List(<<>>)) =>
    extractedFormData =
      extractDataFromFormData(
        args.data, [args.options EXCEPT !.includeFields = Undef])

KeptKeys == {k \in InputKeys : PassesFilters(k)}

\* The position at which a key was first appended.
FirstIndex(k) ==
  CHOOSE i \in 1..Len(args.data[2]) :
    /\ args.data[2][i][1] = k
    /\ \A j \in 1..(i - 1) : args.data[2][j][1] # k

\* The values appended under a key, in insertion order.
ValuesOf(k) ==
  LET sel == SelectSeq(args.data[2], LAMBDA e : e[1] = k)
  IN [i \in 1..Len(sel) |-> sel[i][2]]

AssignedFor(k) ==
  IF IsFormData(args.data) /\ Len(ValuesOf(k)) > 1
  THEN List(ValuesOf(k))
  ELSE ValuesOf(k)[1]

\* Two kept keys that end up under one name.
Collide(j, k) ==
  /\ j \in KeptKeys
  /\ k \in KeptKeys
  /\ j # k
  /\ NewName(j) = NewName(k)

\* The kept key given that name which the iteration reaches last.
ProcessedLast(k) ==
  \A j \in KeptKeys \ {k} :
    NewName(j) = NewName(k) => FirstIndex(j) < FirstIndex(k)

\* C29: when two kept input keys end up with the same output name (two
\* keys renamed to one target, or a key renamed onto another kept key), the
\* result holds one entry under that name, whose value is that of the key
\* processed last in iteration order; the values of the colliding keys are
\* not combined into a list.
C29_CollisionLastProcessedWins ==
  Extracted =>
    \A j, k \in KeptKeys :
      (Collide(j, k) /\ ProcessedLast(k)) =>
        /\ NewName(k) \in DOMAIN extractedFormData
        /\ extractedFormData[NewName(k)] = AssignedFor(k)
        /\ extractedFormData[NewName(k)] # List(ValuesOf(j) \o ValuesOf(k))
        /\ extractedFormData[NewName(k)] # List(ValuesOf(k) \o ValuesOf(j))
        /\ Cardinality(DOMAIN extractedFormData)
             = Cardinality({NewName(i) : i \in KeptKeys})

\* name comes first in the object, user_name is renamed onto it afterwards.
C29_Witness ==
  /\ Extracted
  /\ args.data = Entries(<<<<"name", Prim("b")>>, <<"user_name", Prim("a")>>>>)
  /\ args.options.keyTransforms = [user_name |-> "name"]
  /\ Collide("name", "user_name")
  /\ ProcessedLast("user_name")
  /\ extractedFormData = [name |-> Prim("a")]

(***************************************************************************)
(* SpecTransform: one call of applyDataTransformations(data,               *)
(* transformations).  dataToProcess is the caller's mapping, passed as     *)
(* data, and result is the mapping the call returns.                       *)
(***************************************************************************)
MaxList == 2         \* elements of a list value

TransformLists == {List(l) : l \in SeqsUpTo({Prim("a"), Prim("b")}, MaxList)}

TransformDataChoices ==
  [name |-> {Prim("a"), Prim("b")},
   tags |-> TransformLists,
   secret |-> {Prim("s")}]

TransformData ==
  {m \in ObjectsOver(TransformDataChoices) : WellTyped(m, TransformDataChoices)}

TransformFunctions == {"double", "blank", "reverse"}

TransformationSets ==
  UNION {[K -> TransformFunctions] : K \in SUBSET {"name", "tags", "role"}}

InitTransform ==
  /\ pc = "transform"
  /\ \E data \in TransformData, transformations \in TransformationSets :
       /\ args = [data |-> data, transformations |-> transformations]
       /\ dataToProcess = data
  /\ extractedFormData = EmptyObject
  /\ dynamicSchema = NoSchema
  /\ validationResult = NoResult
  /\ result = NoReturn

TransformCall ==
  /\ pc = "transform"
  /\ result' = applyDataTransformations(dataToProcess, args.transformations)
  /\ dataToProcess' =
       applyDataTransformationsInput(dataToProcess, args.transformations)
  /\ pc' = "done"
  /\ UNCHANGED <<args, extractedFormData, dynamicSchema, validationResult>>

NextTransform == TransformCall

SpecTransform == InitTransform /\ [][NextTransform]_vars

(***************************************************************************)
(* Properties of the transformations (checked under SpecTransform)         *)
(***************************************************************************)
\* The keys whose transformation function runs.
TransformedKeys == (DOMAIN args.data) \cap (DOMAIN args.transformations)

\* No function that runs changes the value it is given.
ArgumentsLeftAlone ==
  \A k \in TransformedKeys :
    ArgumentAfter(args.transformations[k], args.data[k]) = args.data[k]

MaxIssues == 3       \* issues of a failed validation

IssuePaths == {<<>>, <<"name">>, <<"nested", "field">>, <<"nested.field">>}
IssueMessages == {"Too small", "Invalid input"}

IssueChoices == {Issue("custom", p, m, {}) : p \in IssuePaths, m \in IssueMessages}

\* A failed result has at least one issue.
FailedResults == {Failure(q) : q \in SeqsUpTo(IssueChoices, MaxIssues) \ {<<>>}}
SuccessfulResults == {Success(Obj(EmptyObject)), Success(Obj([name |-> Prim("John")]))}

\* Data with keys the schema does not declare, and what the validation
\* under the strict strategy returns for them.
StrictData ==
  {[name |-> Prim("Strict User"), extra |-> Prim("field")],
   [name |-> Prim("John"), extra |-> Prim("field"), secret |-> Prim("t")]}
StrictResults ==
  {validateDataWithDynamicSchema(LongNameSchema, d, "strict", "default", <<>>) :
     d \in StrictData}

InitFormat ==
  /\ pc = "object"
  /\ validationResult \in FailedResults \cup SuccessfulResults \cup StrictResults
  /\ args = EmptyObject
  /\ extractedFormData = EmptyObject
  /\ dataToProcess = EmptyObject
  /\ dynamicSchema = NoSchema
  /\ result = EmptyObject

FormatAsObject ==
  /\ pc = "object"
  /\ result' = [errors |-> formatZodErrorsAsObject(validationResult)]
  /\ pc' = "array"
  /\ UNCHANGED <<args, extractedFormData, dataToProcess, dynamicSchema,
                 validationResult>>

FormatAsArray ==
  /\ pc = "array"
  /\ result' = [errors |-> result.errors,
                errorsInArray |-> formatZodErrorsAsArray(validationResult)]
  /\ pc' = "done"
  /\ UNCHANGED <<args, extractedFormData, dataToProcess, dynamicSchema,
                 validationResult>>

NextFormat == FormatAsObject \/ FormatAsArray

SpecFormat == InitFormat /\ [][NextFormat]_vars

(***************************************************************************)
(* Properties of the error formats (checked under SpecFormat)              *)
(***************************************************************************)
\* The issues of the failed validation, and the dotted path of each.
Issues == validationResult.issues
PathOf(i) == Join(Issues[i].path, ".")

Formatted == pc = "done"

\* The positions of the issues whose dot-joined path is p.
IssuesAt(p) == {i \in 1..Len(Issues) : PathOf(i) = p}
IssuePathKeys == {PathOf(i) : i \in 1..Len(Issues)}

\* The positions of the list entries whose key is p.
EntriesAt(p) ==
  {i \in 1..Len(result.errorsInArray) : result.errorsInArray[i].key = p}

\* C23: for a failed result formatZodErrorsAsObject maps the dot-joined
\* path of every issue to a message, the one of the last issue with that
\* path; for a successful result it returns the empty mapping and
\* formatZodErrorsAsArray the empty list.
C23_ErrorsObjectLastWins ==
  Formatted =>
    /\ ~validationResult.success =>
         /\ DOMAIN result.errors = IssuePathKeys
         /\ \A p \in IssuePathKeys :
              LET last == CHOOSE i \in IssuesAt(p) : \A j \in IssuesAt(p) : j <= i
              IN result.errors[p] = Issues[last].message
    /\ validationResult.success =>
         /\ result.errors = EmptyObject
         /\ result.errorsInArray = <<>>

\* Two issues share a path and carry different messages.
C23_Witness ==
  /\ Formatted
  /\ Len(Issues) = 3
  /\ Issues[1].path = <<"nested", "field">>
  /\ Issues[1].message = "Too small"
  /\ Issues[2].path = <<"name">>
  /\ Issues[3].path = <<"nested", "field">>
  /\ Issues[3].message = "Invalid input"
  /\ result.errors["nested.field"] = "Invalid input"

\* C24 as claimed: for a failed result every key of the map appears exactly
\* once as a key of the list, and the list has one entry per issue in issue
\* order.
C24_MapKeysOnceInArray ==
  (Formatted /\ ~validationResult.success) =>
    /\ \A p \in DOMAIN result.errors : Cardinality(EntriesAt(p)) = 1
    /\ Len(result.errorsInArray) = Len(Issues)
    /\ \A i \in 1..Len(Issues) :
         /\ result.errorsInArray[i].key = PathOf(i)
         /\ result.errorsInArray[i].message = Issues[i].message

\* C24 as amended: for a failed result the list has one entry per issue in
\* issue order, so a key of the map appears in the list once for every
\* issue with that path: at least once, and exactly once when no two issues
\* share the path.
C24_MapKeysInArrayPerIssue ==
  (Formatted /\ ~validationResult.success) =>
    /\ Len(result.errorsInArray) = Len(Issues)
    /\ \A i \in 1..Len(Issues) :
         /\ result.errorsInArray[i].key = PathOf(i)
         /\ result.errorsInArray[i].message = Issues[i].message
    /\ \A p \in DOMAIN result.errors :
         /\ EntriesAt(p) = IssuesAt(p)
         /\ Cardinality(EntriesAt(p)) >= 1
         /\ Cardinality(IssuesAt(p)) = 1 => Cardinality(EntriesAt(p)) = 1
    /\ \A i \in 1..Len(result.errorsInArray) :
         result.errorsInArray[i].key \in DOMAIN result.errors

\* One path has two issues, hence two entries of the list, another has one.
C24_Witness ==
  /\ Formatted
  /\ Len(Issues) = 3
  /\ DOMAIN result.errors = {"name", ""}
  /\ Cardinality(EntriesAt("name")) = 2
  /\ Cardinality(EntriesAt("")) = 1
  /\ result.errorsInArray[1].key = "name"
  /\ result.errorsInArray[2].key = ""
  /\ result.errorsInArray[1].message # result.errorsInArray[3].message

\* The positions of the issues raised on the validated value itself.
RootIssues == {i \in 1..Len(Issues) : Issues[i].path = <<>>}

\* The key names that an unrecognized-keys issue rejects.
RejectedKeys ==
  UNION {Issues[i].keys : i \in {j \in 1..Len(Issues) :
                                   Issues[j].code = "unrecognized_keys"}}

\* C30: an issue whose path is empty is reported by both formatters under
\* the empty-string key: the list entry of the issue has key "", the map
\* has the key "" with the message of the last such issue (so of several
\* root-level issues only the last message is left), and the key names
\* rejected by an unrecognized-keys issue are keys neither of the map nor
\* of the list.
C30_RootIssuesUnderEmptyKey ==
  (Formatted /\ ~validationResult.success) =>
    /\ \A i \in RootIssues :
         /\ result.errorsInArray[i].key = ""
         /\ result.errorsInArray[i].message = Issues[i].message
    /\ RootIssues # {} =>
         /\ "" \in DOMAIN result.errors
         /\ \A i \in RootIssues :
              (\A j \in RootIssues : j <= i)
                => result.errors[""] = Issues[i].message
    /\ RootIssues = {} => "" \notin DOMAIN result.errors
    /\ \A k \in RejectedKeys :
         /\ k \notin DOMAIN result.errors
         /\ \A i \in 1..Len(result.errorsInArray) :
              result.errorsInArray[i].key # k

\* The strict validation of data with two undeclared keys and a name that
\* is too short: the two key names are reported under "" only.
C30_Witness ==
  /\ Formatted
  /\ validationResult \in StrictResults
  /\ Len(Issues) = 2
  /\ RootIssues = {2}
  /\ RejectedKeys = {"extra", "secret"}
  /\ result.errors = [n \in {"name", ""} |->
                        IF n = "name" THEN "Too small" ELSE "Unrecognized key"]
  /\ result.errorsInArray[2] = [key |-> "", message |-> "Unrecognized key"]

(***************************************************************************)
(* SpecEncode: convertObjectToFormData(inputObject) followed by            *)
(* extractDataFromFormData on the FormData it returned, with empty         *)
(* options.  result is the FormData, extractedFormData the mapping         *)
(* extracted from it.                                                      *)
(***************************************************************************)
EncodeScalars == {Prim("a"), Num(12), Bool(TRUE)}

\* The elements of a list value: scalars, null, a list, a plain object.
EncodeItems ==
  EncodeScalars \cup {Null, List(<<Prim("b")>>), Obj([id |-> Prim("x")])}

EncodeChoices ==
  [name |-> {Prim("a")},
   id |-> {Num(7), Num(12)},
   role |-> {Bool(TRUE)},
   user |-> {Obj(EmptyObject), Obj([id |-> Prim("u1")]),
             Obj([id |-> Num(3), name |-> Null])},
   customId |-> {Null, Undef},
   extra |-> {List(l) : l \in SeqsUpTo(EncodeItems, MaxList)}]

\* Every object that gives each key of a subset of the keys one of the
\* values choices allows for it.
RECURSIVE ObjectsTyped(_, _)
ObjectsTyped(choices, keys) ==
  IF keys = <<>> THEN {EmptyObject}
  ELSE LET rest == ObjectsTyped(choices, Tail(keys))
       IN rest \cup {SetKey(m, Head(keys), v) : m \in rest, v \in choices[Head(keys)]}

EncodeInputs == ObjectsTyped(EncodeChoices, ObjectKeys(EncodeChoices))

NoOptions == [keyTransforms |-> EmptyObject, excludeFields |-> <<>>, includeFields |-> Undef]

InitEncode ==
  /\ pc = "encode"
  /\ \E inputObject \in EncodeInputs : args = [inputObject |-> inputObject]
  /\ extractedFormData = EmptyObject
  /\ dataToProcess = EmptyObject
  /\ dynamicSchema = NoSchema
  /\ validationResult = NoResult
  /\ result = NoReturn

EncodeCall ==
  /\ pc = "encode"
  /\ result' = convertObjectToFormData(args.inputObject)
  /\ pc' = "extract"
  /\ UNCHANGED <<args, extractedFormData, dataToProcess, dynamicSchema,
                 validationResult>>

ExtractEncoded ==
  /\ pc = "extract"
  /\ extractedFormData' = extractDataFromFormData(result, NoOptions)
  /\ pc' = "done"
  /\ UNCHANGED <<args, dataToProcess, dynamicSchema, validationResult, result>>

NextEncode == EncodeCall \/ ExtractEncoded

SpecEncode == InitEncode /\ [][NextEncode]_vars

(***************************************************************************)
(* Properties of the encoding (checked under SpecEncode)                   *)
(***************************************************************************)
Decoded == pc = "done"
InputObject == args.inputObject

IsScalar(v) == v[1] \in {"p", "n", "b"}

\* The mapping holds only strings, numbers, booleans, a nested mapping of
\* such scalars and a list of such scalars.
InRoundTripClass ==
  \A k \in DOMAIN InputObject :
    \/ IsScalar(InputObject[k])
    \/ /\ IsObj(InputObject[k])
       /\ \A c \in DOMAIN InputObject[k][2] : IsScalar(InputObject[k][2][c])
    \/ /\ IsArray(InputObject[k])
       /\ \A i \in 1..Len(InputObject[k][2]) : IsScalar(InputObject[k][2][i])

\* A value with its scalars replaced by their string forms.
Stringified(v) ==
  CASE IsArray(v) -> List([i \in 1..Len(v[2]) |-> Prim(String(v[2][i]))])
    [] IsObj(v) -> Obj([c \in DOMAIN v[2] |-> Prim(String(v[2][c]))])
    [] OTHER -> Prim(String(v))

StringifiedInput == [k \in DOMAIN InputObject |-> Stringified(InputObject[k])]

\* What comes back for a mapping of the class: a scalar as its string, a
\* list of two or more as the list of strings, a list of one as that one
\* string, an empty list as nothing, a nested mapping as one flat entry
\* key[child] per child.
ComesBack ==
  {<<k, Stringified(InputObject[k])>> :
     k \in {j \in DOMAIN InputObject :
              \/ IsScalar(InputObject[j])
              \/ IsArray(InputObject[j]) /\ Len(InputObject[j][2]) >= 2}}
  \cup
  {<<k, Prim(String(InputObject[k][2][1]))>> :
     k \in {j \in DOMAIN InputObject :
              IsArray(InputObject[j]) /\ Len(InputObject[j][2]) = 1}}
  \cup
  UNION {{<<k \o "[" \o c \o "]", Prim(String(InputObject[k][2][c]))>> :
            c \in DOMAIN InputObject[k][2]} :
         k \in {j \in DOMAIN InputObject : IsObj(InputObject[j])}}

\* C25 as claimed: for a mapping of the class, extracting what was encoded
\* gives the mapping with its scalars replaced by their string forms: same
\* keys, the list a list, the nested mapping nested.
C25_RoundTrip ==
  (Decoded /\ InRoundTripClass) => extractedFormData = StringifiedInput

\* C25 as amended: for a mapping of the class, extracting what was encoded
\* gives the string form of every scalar and the list of string forms of a
\* list of two or more elements; a list of one element comes back as that
\* element's string form, an empty list and an empty nested mapping as no
\* key at all, and a nested mapping as one flat entry key[child] per child.
\* The result is the stringified mapping exactly when the mapping has no
\* nested mapping and no list of fewer than two elements.
C25_RoundTripOfFlatMappings ==
  (Decoded /\ InRoundTripClass) =>
    /\ {<<k, extractedFormData[k]>> : k \in DOMAIN extractedFormData} = ComesBack
    /\ (\A k \in DOMAIN InputObject :
          /\ ~IsObj(InputObject[k])
          /\ IsArray(InputObject[k]) => Len(InputObject[k][2]) >= 2)
         <=> extractedFormData = StringifiedInput

C25_Witness ==
  /\ Decoded
  /\ InputObject = [name |-> Prim("a"), id |-> Num(12), role |-> Bool(TRUE),
                    user |-> Obj([id |-> Prim("u1")]),
                    extra |-> List(<<Prim("a"), Num(12)>>)]
  /\ extractedFormData =
       ("user[id]" :> Prim("u1")) @@
       [name |-> Prim("a"), id |-> Prim("12"), role |-> Prim("true"),
        extra |-> List(<<Prim("a"), Prim("12")>>)]

\* The FormData that convertObjectToFormData returned, entry by entry.
Encoded == pc \in {"extract", "done"}
EncodedEntries == result[2]

\* The entries with a given key, in order.
EntriesWithKey(k) == SelectSeq(EncodedEntries, LAMBDA e : e[1] = k)

\* The keys under which the values other than the list are encoded.
KeysOutsideList ==
  {"name", "id", "role", "customId", "user[id]", "user[name]"}
EntriesOfList == SelectSeq(EncodedEntries, LAMBDA e : e[1] \notin KeysOutsideList)

\* The entries of one element of a list under key K: a list or a plain
\* mapping goes under K[index], anything else under K itself.
EntriesOfItem(K, index, item) ==
  LET indexed == K \o "[" \o NumToString(index) \o "]"
  IN CASE IsArray(item) ->
            [j \in 1..Len(item[2]) |-> <<indexed, Prim(String(item[2][j]))>>]
       [] IsObj(item) ->
            LET children == ObjectKeys(item[2])
            IN [j \in 1..Len(children) |->
                  <<indexed \o "[" \o children[j] \o "]",
                    Prim(String(item[2][children[j]]))>>]
       [] OTHER -> <<<<K, Prim(String(item))>>>>

RECURSIVE EntriesOfItems(_, _, _)
EntriesOfItems(K, items, index) ==
  IF index >= Len(items) THEN <<>>
  ELSE EntriesOfItem(K, index, items[index + 1])
         \o EntriesOfItems(K, items, index + 1)

\* C27: a list under key K is encoded element by element in order: a list
\* or a plain mapping recursively under K[index] (the children of a mapping
\* under K[index][childKey]), every other element as its string form under
\* K itself, so that a list of n primitives gives exactly n entries under K
\* in list order; a null or absent value, at the top level or nested in a
\* mapping, gives one entry holding the empty string.
C27_ListAndNullEncoding ==
  Encoded =>
    /\ "extra" \in DOMAIN InputObject =>
         LET items == InputObject.extra[2]
         IN /\ EntriesOfList = EntriesOfItems("extra", items, 0)
            /\ (\A i \in 1..Len(items) : ~IsArray(items[i]) /\ ~IsObj(items[i]))
                 => /\ Len(EntriesWithKey("extra")) = Len(items)
                    /\ \A i \in 1..Len(items) :
                         EntriesWithKey("extra")[i]
                           = <<"extra", Prim(String(items[i]))>>
    /\ "extra" \notin DOMAIN InputObject => EntriesOfList = <<>>
    /\ "customId" \in DOMAIN InputObject =>
         EntriesWithKey("customId") = <<<<"customId", Prim("")>>>>
    /\ ("user" \in DOMAIN InputObject
          /\ "name" \in DOMAIN InputObject.user[2]
          /\ InputObject.user[2].name = Null)
         => EntriesWithKey("user[name]") = <<<<"user[name]", Prim("")>>>>

C27_Witness ==
  /\ Encoded
  /\ InputObject = [customId |-> Null,
                    extra |-> List(<<Obj([id |-> Prim("x")]), Num(12)>>)]
  /\ result = FormData(<<<<"extra[0][id]", Prim("x")>>, <<"extra", Prim("12")>>,
                         <<"customId", Prim("")>>>>)

(***************************************************************************)
(* Spec: one call of processAndValidateFormData(schema, inputData,         *)
(* options), run statement by statement.  A call varies either the options *)
(* of the extraction side or those of the validation side; the other       *)
(* options are left out.                                                   *)
(***************************************************************************)
ProcessSchemas == {ZObject([name |-> ZString(2)], p) : p \in UnknownKeyPolicies}

ProcessEntries ==
  {<<"user_name", Prim("J")>>, <<"user_name", Prim("John")>>,
   <<"name", Prim("John")>>, <<"secret", Prim("s")>>}

ProcessEntryLists == SeqsUpTo(ProcessEntries, MaxInput)

ProcessInputs ==
  {FormData(e) : e \in ProcessEntryLists}
    \cup {Entries(e) : e \in {q \in ProcessEntryLists : DistinctKeys(q)}}

AdditionalDataChoices ==
  {EmptyObject, [role |-> Prim("admin")], [name |-> Prim("J")],
   [secret |-> Prim("t")], [user_name |-> Prim("K")]}

TransformationChoices ==
  {EmptyObject, [name |-> "double"], [user_name |-> "double"]}

\* schemaModification with the additionalSchemas given along with it
ModificationChoices ==
  {<<"undefined", <<>> >>, <<"default", <<>> >>,
   <<"mergeWithAnd", <<RoleSchema>> >>, <<"mergeWithOr", <<RoleSchema>> >>}

Options(kt, ex, inc, tr, add, out, strat, mod, dyn) ==
  [keyTransforms |-> kt, excludeFields |-> ex, includeFields |-> inc,
   transformations |-> tr, additionalData |-> add, outputFormat |-> out,
   validationStrategy |-> strat, schemaModification |-> mod[1],
   additionalSchemas |-> mod[2], useDynamicValidation |-> dyn]

ExtractionSideOptions ==
  {Options(kt, ex, inc, tr, add, out, "undefined", <<"undefined", <<>> >>, Undef) :
     kt \in {EmptyObject, [user_name |-> "name"]},
     ex \in {<<>>, <<"secret">>},
     inc \in {Undef, List(<<>>), List(<<"name">>)},
     tr \in TransformationChoices,
     add \in AdditionalDataChoices,
     out \in {"undefined", "formData"}}

ValidationSideOptions ==
  {Options(EmptyObject, <<>>, Undef, EmptyObject, add, "undefined", strat, mod, dyn) :
     add \in AdditionalDataChoices,
     strat \in StrategyArgs,
     mod \in ModificationChoices,
     dyn \in {Undef, Bool(TRUE), Bool(FALSE)}}

OutputSideOptions ==
  {Options(EmptyObject, <<>>, Undef, EmptyObject, add, out, strat, <<"undefined", <<>> >>, Undef) :
     add \in AdditionalDataChoices,
     out \in {"object", "formData"},
     strat \in {"removeExtraFields", "allowExtraFields", "partial"}}

Init ==
  /\ pc = "extract"
  /\ \E schema \in ProcessSchemas, inputData \in ProcessInputs,
        options \in ExtractionSideOptions \cup ValidationSideOptions
                      \cup OutputSideOptions :
       args = [schema |-> schema, inputData |-> inputData, options |-> options]
  /\ extractedFormData = EmptyObject
  /\ dataToProcess = EmptyObject
  /\ dynamicSchema = NoSchema
  /\ validationResult = NoResult
  /\ result = NoReturn

\* 1. const extractedFormData = extractDataFromFormData(inputData, extractOptions)
Extract ==
  /\ pc = "extract"
  /\ extractedFormData' =
       extractDataFromFormData(args.inputData, extractOptions(args.options))
  /\ pc' = "merge"
  /\ UNCHANGED <<args, dataToProcess, dynamicSchema, validationResult, result>>

\* Variant: on a key collision the extracted value is kept.
MergeAdditionalData_ExtractedWins ==
  /\ pc = "merge"
  /\ dataToProcess' = Spread(args.options.additionalData, extractedFormData)
  /\ pc' = "transform"
  /\ UNCHANGED <<args, extractedFormData, dynamicSchema, validationResult, result>>

\* Variant: additionalData goes through the extraction options as well.
MergeAdditionalData_FiltersAdditionalData ==
  /\ pc = "merge"
  /\ dataToProcess' =
       Spread(extractedFormData,
              extractDataFromFormData(
                Entries([i \in 1..Len(ObjectKeys(args.options.additionalData)) |->
                           <<ObjectKeys(args.options.additionalData)[i],
                             args.options.additionalData[
                               ObjectKeys(args.options.additionalData)[i]]>>]),
                extractOptions(args.options)))
  /\ pc' = "transform"
  /\ UNCHANGED <<args, extractedFormData, dynamicSchema, validationResult, result>>

\* 2. let dataToProcess = { ...extractedFormData, ...additionalData }
MergeAdditionalData ==
  /\ pc = "merge"
  /\ dataToProcess' = Spread(extractedFormData, args.options.additionalData)
  /\ pc' = "transform"
  /\ UNCHANGED <<args, extractedFormData, dynamicSchema, validationResult, result>>

\* Variant: the transformations are applied to the extracted data, before
\* additionalData is merged in.
Transform_BeforeMerge ==
  /\ pc = "transform"
  /\ dataToProcess' =
       Spread(applyDataTransformations(extractedFormData,
                                       args.options.transformations),
              args.options.additionalData)
  /\ pc' = "validate"
  /\ UNCHANGED <<args, extractedFormData, dynamicSchema, validationResult, result>>

\* 3. dataToProcess = applyDataTransformations(dataToProcess, transformations)
Transform ==
  /\ pc = "transform"
  /\ dataToProcess' =
       applyDataTransformations(dataToProcess, args.options.transformations)
  /\ pc' = "validate"
  /\ UNCHANGED <<args, extractedFormData, dynamicSchema, validationResult, result>>

\* 4. const validationResult = validateDataWithDynamicSchema(schema,
\*      dataToProcess, validationStrategy, schemaModification, additionalSchemas)
Validate ==
  /\ pc = "validate"
  /\ dynamicSchema' =
       createDynamicZodSchema(
         args.schema, dataToProcess,
         DefaultArg(args.options.validationStrategy, "strict"),
         DefaultArg(args.options.schemaModification, "default"),
         args.options.additionalSchemas)
  /\ validationResult' =
       validateDataWithDynamicSchema(
         args.schema, dataToProcess,
         DefaultArg(args.options.validationStrategy, "strict"),
         DefaultArg(args.options.schemaModification, "default"),
         args.options.additionalSchemas)
  /\ pc' = "return"
  /\ UNCHANGED <<args, extractedFormData, dataToProcess, result>>

\* if (validationResult.success) { return { success: true, data: ... } }
ReturnSuccess ==
  /\ pc = "return"
  /\ validationResult.success
  /\ result' = SuccessResult(args.options, validationResult)
  /\ pc' = "done"
  /\ UNCHANGED <<args, extractedFormData, dataToProcess, dynamicSchema,
                 validationResult>>

\* else { return { success: false, data: dataToProcess, errors: ... } }
ReturnFailure ==
  /\ pc = "return"
  /\ ~validationResult.success
  /\ result' = FailureResult(dataToProcess, validationResult)
  /\ pc' = "done"
  /\ UNCHANGED <<args, extractedFormData, dataToProcess, dynamicSchema,
                 validationResult>>

Next ==
  \/ Extract
  \/ MergeAdditionalData
  \/ Transform
  \/ Validate
  \/ ReturnSuccess
  \/ ReturnFailure

Spec == Init /\ [][Next]_vars

(***************************************************************************)
(* Properties of the pipeline (checked under Spec)                         *)
(***************************************************************************)
Returned == pc = "done"
ProcessInputKeys == {args.inputData[2][i][1] : i \in 1..Len(args.inputData[2])}

\* C1: with useDynamicValidation = false the merged, transformed data is
\* validated against the base schema as supplied: the call succeeds
\* exactly when the base schema accepts the data, and returns the base
\* schema's output.
C1_DisabledDynamicUsesBaseSchema ==
  (Returned /\ args.options.useDynamicValidation = Bool(FALSE)) =>
    LET direct == SafeParse(args.schema, Obj(dataToProcess))
    IN /\ result.success = direct.success
       /\ direct.success => result.data = direct.data

\* C10: when keyTransforms renames user_name to the schema name "name" and
\* includeFields lists the schema name, the renamed field is part of the
\* data that is validated, together with the additionalData fields, and
\* excluded input keys are absent.
C10_IncludeByNewName ==
  (pc = "validate"
     /\ args.options.keyTransforms = [user_name |-> "name"]
     /\ args.options.includeFields = List(<<"name">>)
     /\ "user_name" \in ProcessInputKeys) =>
    /\ "name" \in DOMAIN dataToProcess
    /\ \A k \in DOMAIN args.options.additionalData : k \in DOMAIN dataToProcess
    /\ \A k \in ProcessInputKeys :
         (Includes(args.options.excludeFields, k)
            /\ k \notin DOMAIN args.options.additionalData)
           => k \notin DOMAIN dataToProcess

\* The value a key has once additionalData is merged over the extracted data.
MergedKeys == (DOMAIN extractedFormData) \cup (DOMAIN args.options.additionalData)
MergedValue(k) ==
  IF k \in DOMAIN args.options.additionalData
  THEN args.options.additionalData[k]
  ELSE extractedFormData[k]

\* The value of a key that is handed to the validator.
TransformedValue(k) ==
  IF k \in DOMAIN args.options.transformations
  THEN ApplyFn(args.options.transformations[k], MergedValue(k))
  ELSE MergedValue(k)

\* C12: for a key supplied both by the extracted input and by
\* additionalData, the value that goes on to be transformed and validated
\* is the additionalData value; a key supplied by only one of the two keeps
\* its value.
C12_AdditionalDataWins ==
  /\ pc = "transform" =>
       /\ DOMAIN dataToProcess = MergedKeys
       /\ \A k \in MergedKeys :
            dataToProcess[k] =
              IF k \in DOMAIN args.options.additionalData
              THEN args.options.additionalData[k]
              ELSE extractedFormData[k]
  /\ pc \in {"validate", "return", "done"} =>
       \A k \in MergedKeys \ DOMAIN args.options.transformations :
         /\ k \in DOMAIN dataToProcess
         /\ dataToProcess[k] = MergedValue(k)

C12_Witness ==
  /\ pc = "transform"
  /\ extractedFormData = [name |-> Prim("John")]
  /\ args.options.additionalData = [name |-> Prim("J")]
  /\ dataToProcess = [name |-> Prim("J")]

\* C13: the steps run in the order extract, merge, transform, validate: the
\* data handed to the validator is the merged data with each registered
\* transformation applied to the merged value of its key (a value of
\* additionalData included), a transformation is looked up under the renamed
\* key and not under the original one, and the validation result is the one
\* of the transformed data.
C13_StepOrder ==
  /\ pc \in {"validate", "return", "done"} =>
       /\ DOMAIN dataToProcess = MergedKeys
       /\ \A k \in MergedKeys : dataToProcess[k] = TransformedValue(k)
       /\ \A k \in ProcessInputKeys :
            (k \in DOMAIN args.options.transformations
               /\ transformKey(args.options, k) # k
               /\ transformKey(args.options, k) \in DOMAIN dataToProcess
               /\ transformKey(args.options, k)
                    \notin DOMAIN args.options.transformations)
              => dataToProcess[transformKey(args.options, k)]
                   = MergedValue(transformKey(args.options, k))
  /\ pc \in {"return", "done"} =>
       validationResult =
         SafeParse(dynamicSchema,
                   Obj([k \in MergedKeys |-> TransformedValue(k)]))
  /\ pc \in {"extract", "merge"} => dataToProcess = EmptyObject
  /\ pc \in {"extract", "merge", "transform", "validate"} =>
       validationResult = NoResult

\* A transformation reaches a value that came from additionalData, and the
\* validator accepts the transformed value where it rejects the original.
C13_Witness ==
  /\ Returned
  /\ args.options.additionalData = [name |-> Prim("J")]
  /\ args.options.transformations = [name |-> "double"]
  /\ dataToProcess = [name |-> Prim("JJ")]
  /\ result.success
  /\ ~SafeParse(dynamicSchema, Obj([name |-> Prim("J")])).success


\* C14: when validation fails, a result is returned with success = false,
\* data equal to the merged, transformed mapping that was handed to the
\* validator, and errors, errorsInArray and errorsInString derived from the
\* one issue list: errorsInArray has one {key, message} per issue in issue
\* order, errors maps every issue path to the message of the last issue
\* with that path, errorsInString is the messages in issue order joined by
\* newlines.
C14_FailureResult ==
  /\ (pc = "return" /\ ~validationResult.success) => ENABLED ReturnFailure
  /\ (Returned /\ ~validationResult.success) =>
       /\ result.success = FALSE
       /\ DOMAIN result =
            {"success", "data", "errors", "errorsInArray", "errorsInString"}
       /\ result.data = Obj([k \in MergedKeys |-> TransformedValue(k)])
       /\ Len(result.errorsInArray) = Len(Issues)
       /\ \A i \in 1..Len(Issues) :
            /\ result.errorsInArray[i].key = PathOf(i)
            /\ result.errorsInArray[i].message = Issues[i].message
       /\ DOMAIN result.errors = {PathOf(i) : i \in 1..Len(Issues)}
       /\ \A i \in 1..Len(Issues) :
            (\A j \in (i + 1)..Len(Issues) : PathOf(j) # PathOf(i))
              => result.errors[PathOf(i)] = Issues[i].message
       /\ result.errorsInString =
            Join([i \in 1..Len(Issues) |-> Issues[i].message], "\n")

\* A failure with two issues, on data that is neither the raw input (the
\* key was renamed, additionalData was merged in) nor a validator output.
C14_Witness ==
  /\ Returned
  /\ args.inputData = Entries(<<<<"user_name", Prim("J")>>>>)
  /\ args.options.keyTransforms = [user_name |-> "name"]
  /\ args.options.additionalData = [secret |-> Prim("t")]
  /\ result.success = FALSE
  /\ result.data = Obj([name |-> Prim("J"), secret |-> Prim("t")])
  /\ Len(result.errorsInArray) = 2
  /\ result.errorsInString =
       result.errorsInArray[1].message \o "\n" \o result.errorsInArray[2].message

\* C15: when validation succeeds, the result is success = true with data
\* equal to the validator's output when outputFormat is object or unset,
\* and to the encoding of the validator's output (not of the data handed to
\* the validator) when outputFormat is formData; there is no error field.
C15_SuccessResult ==
  /\ (pc = "return" /\ validationResult.success) => ENABLED ReturnSuccess
  /\ (Returned /\ validationResult.success) =>
       /\ result.success = TRUE
       /\ DOMAIN result = {"success", "data"}
       /\ args.options.outputFormat \in {"undefined", "object"}
            => result.data = validationResult.data
       /\ args.options.outputFormat = "formData"
            => /\ IsFormData(result.data)
               /\ result.data = convertObjectToFormData(validationResult.data[2])
               /\ {result.data[2][i][1] : i \in 1..Len(result.data[2])}
                    = DOMAIN validationResult.data[2]

\* The validator stripped a key, and the encoded result does not carry it.
C15_Witness ==
  /\ Returned
  /\ result.success
  /\ args.options.outputFormat = "formData"
  /\ args.options.validationStrategy = "removeExtraFields"
  /\ dataToProcess = [name |-> Prim("John"), secret |-> Prim("t")]
  /\ result.data = FormData(<<<<"name", Prim("John")>>>>)

\* The extraction options would drop or rename the key, were it a key of
\* the input container.
ExtractionWouldTouch(k) ==
  \/ Includes(args.options.excludeFields, k)
  \/ /\ Truthy(args.options.includeFields)
     /\ args.options.includeFields[2] # <<>>
     /\ ~Includes(args.options.includeFields[2], k)
  \/ transformKey(args.options, k) # k

\* C28: the extraction options act on the input container only: a key of
\* additionalData reaches the validation under its own name, with the
\* additionalData value (transformed if a transformation is registered for
\* it), also when it is listed in excludeFields, is missing from a
\* non-empty includeFields or is a source name of keyTransforms.
C28_AdditionalDataBypassesExtraction ==
  /\ pc = "transform" =>
       \A k \in DOMAIN args.options.additionalData :
         /\ k \in DOMAIN dataToProcess
         /\ dataToProcess[k] = args.options.additionalData[k]
  /\ pc \in {"validate", "return", "done"} =>
       \A k \in DOMAIN args.options.additionalData :
         /\ k \in DOMAIN dataToProcess
         /\ dataToProcess[k] =
              IF k \in DOMAIN args.options.transformations
              THEN ApplyFn(args.options.transformations[k],
                           args.options.additionalData[k])
              ELSE args.options.additionalData[k]

\* The input's own key is excluded, the additionalData key of that name is
\* validated.
C28_Witness ==
  /\ pc = "validate"
  /\ args.inputData = Entries(<<<<"secret", Prim("s")>>>>)
  /\ args.options.excludeFields = <<"secret">>
  /\ args.options.additionalData = [secret |-> Prim("t")]
  /\ ExtractionWouldTouch("secret")
  /\ extractedFormData = EmptyObject
  /\ dataToProcess = [secret |-> Prim("t")]

====
